---- MODULE Spec2Model ----
(***************************************************************************)
(* Cluster manifest rendering of pkg/render/manifests.go.                  *)
(*                                                                         *)
(* Strings are sequences of symbols.  The separators "/", ".", "_" and "-" *)
(* are symbols of their own and every maximal run of other characters is   *)
(* one atomic symbol, so strings.Split, strings.ReplaceAll and path.Base   *)
(* act on the model's strings exactly as they act on the Go strings.       *)
(*                                                                         *)
(* A rendered text is a sequence of strings: the expansion of an asset     *)
(* under the cluster parameters is <<asset>>, the expansion of the wrapper *)
(* template under {name, data} is <<template, name>> \o data, and a patch  *)
(* appends the patch's expansion to the base text.                         *)
(***************************************************************************)
EXTENDS Integers, Sequences, FiniteSets, TLC

VARIABLES
    env,                \* the inputs of a render pass, fixed for the behaviour
    pc,                 \* the position of the driver
    manifests,          \* renderContext: ordered mapping name -> text
    userManifestFiles,  \* clusterManifestContext.userManifestFiles
    userManifests,      \* clusterManifestContext.userManifests
    calls,              \* history: the feature groups invoked by setupManifests
    failure,            \* the first failure of the pass, "none" if there is none
    result,             \* how the pass ended: none | ok | error | panic
    output,             \* the manifests renderManifests has put out
    pass,               \* the number of the pass being run
    prev,               \* history: result and output of the pass before
    file,               \* the argument of userConfigMapName (SpecName)
    cmName,             \* the value userConfigMapName returned (SpecName)
    npc                 \* the position of the userConfigMapName caller (SpecName)

vars == <<env, pc, manifests, userManifestFiles, userManifests, calls, failure,
          result, output, pass, prev, file, cmName, npc>>

ctxVars == <<manifests, userManifestFiles, userManifests>>
nameVars == <<file, cmName, npc>>

----------------------------------------------------------------------------
(* Bounds *)

MaxListing == 2
MaxUser == 2
MaxLen == 4

----------------------------------------------------------------------------
(* Asset names of manifests.go *)

\* etcd/... (lines 74-78)
EtcdFiles ==
    << <<"etcd", "/", "etcd", "-", "cluster", "-", "crd", ".", "yaml">>,
       <<"etcd", "/", "etcd", "-", "cluster", ".", "yaml">>,
       <<"etcd", "/", "etcd", "-", "operator", "-", "cluster", "-", "role", "-", "binding", ".", "yaml">>,
       <<"etcd", "/", "etcd", "-", "operator", "-", "cluster", "-", "role", ".", "yaml">>,
       <<"etcd", "/", "etcd", "-", "operator", ".", "yaml">> >>

\* oauth-openshift/ingress-certs-secret.yaml
OauthFiles ==
    << <<"oauth", "-", "openshift", "/", "ingress", "-", "certs", "-", "secret", ".", "yaml">> >>

\* kube-apiserver-deployment.yaml
KubeAPIServerDeployment ==
    <<"kube", "-", "apiserver", "-", "deployment", ".", "yaml">>

\* kube-apiserver/kube-apiserver-deployment-patch.yaml
KubeAPIServerPatch ==
    <<"kube", "-", "apiserver", "/", "kube", "-", "apiserver", "-", "deployment", "-", "patch", ".", "yaml">>

\* kube-apiserver/kube-apiserver-vpnclient-config.yaml
KubeAPIServerFiles ==
    << <<"kube", "-", "apiserver", "/", "kube", "-", "apiserver", "-", "vpnclient", "-", "config", ".", "yaml">> >>

\* registry/cluster-imageregistry-config.yaml
RegistryFiles ==
    << <<"registry", "/", "cluster", "-", "imageregistry", "-", "config", ".", "yaml">> >>

\* "cluster-bootstrap/"
ClusterBootstrapDir == <<"cluster", "-", "bootstrap", "/">>

\* openvpn/openvpn-{serviceaccount,server-deployment,ccd-configmap,server-configmap}.yaml
OpenVPNServerFiles ==
    << <<"openvpn", "/", "openvpn", "-", "serviceaccount", ".", "yaml">>,
       <<"openvpn", "/", "openvpn", "-", "server", "-", "deployment", ".", "yaml">>,
       <<"openvpn", "/", "openvpn", "-", "ccd", "-", "configmap", ".", "yaml">>,
       <<"openvpn", "/", "openvpn", "-", "server", "-", "configmap", ".", "yaml">> >>

\* openvpn/openvpn-client-{deployment,configmap}.yaml
OpenVPNClientFiles ==
    << <<"openvpn", "/", "openvpn", "-", "client", "-", "deployment", ".", "yaml">>,
       <<"openvpn", "/", "openvpn", "-", "client", "-", "configmap", ".", "yaml">> >>

\* router-proxy/router-proxy-{deployment,configmap,vpnclient-configmap,http-service,https-service}.yaml
RouterProxyFiles ==
    << <<"router", "-", "proxy", "/", "router", "-", "proxy", "-", "deployment", ".", "yaml">>,
       <<"router", "-", "proxy", "/", "router", "-", "proxy", "-", "configmap", ".", "yaml">>,
       <<"router", "-", "proxy", "/", "router", "-", "proxy", "-", "vpnclient", "-", "configmap", ".", "yaml">>,
       <<"router", "-", "proxy", "/", "router", "-", "proxy", "-", "http", "-", "service", ".", "yaml">>,
       <<"router", "-", "proxy", "/", "router", "-", "proxy", "-", "https", "-", "service", ".", "yaml">> >>

\* hypershift-operator/hypershift-operator-deployment.yaml
HypershiftOperatorFiles ==
    << <<"hypershift", "-", "operator", "/", "hypershift", "-", "operator", "-", "deployment", ".", "yaml">> >>

\* user-manifests-bootstrapper/user-manifests-bootstrapper-pod.yaml
BootstrapperPodFiles ==
    << <<"user", "-", "manifests", "-", "bootstrapper", "/", "user", "-", "manifests", "-", "bootstrapper", "-", "pod", ".", "yaml">> >>

\* user-manifests-bootstrapper/user-manifest-template.yaml
UserManifestTemplate ==
    <<"user", "-", "manifests", "-", "bootstrapper", "/", "user", "-", "manifest", "-", "template", ".", "yaml">>

\* "user-manifest-"
UserManifestPrefix == <<"user", "-", "manifest", "-">>

----------------------------------------------------------------------------
(* String functions *)

SeqToSet(s) == {s[i] : i \in 1..Len(s)}

\* strings.Split(s, sep) for a one-symbol separator: the parts between the
\* separators, in order; a string without separator is its own single part.
RECURSIVE Split(_, _)
Split(s, sep) ==
    IF \A i \in 1..Len(s) : s[i] # sep
    THEN <<s>>
    ELSE LET k == CHOOSE i \in 1..Len(s) :
                      s[i] = sep /\ \A j \in 1..(i - 1) : s[j] # sep
         IN  <<SubSeq(s, 1, k - 1)>> \o Split(SubSeq(s, k + 1, Len(s)), sep)

\* strings.ReplaceAll(s, old, new) for one-symbol old and new.
ReplaceAll(s, old, new) ==
    [i \in 1..Len(s) |-> IF s[i] = old THEN new ELSE s[i]]

\* The string without its trailing slashes (path.Base strips them first).
RECURSIVE StripTrailingSlashes(_)
StripTrailingSlashes(p) ==
    IF Len(p) > 0 /\ p[Len(p)] = "/"
    THEN StripTrailingSlashes(SubSeq(p, 1, Len(p) - 1))
    ELSE p

\* path.Base(p): the last element of the path; "." for the empty path and "/"
\* for a path of slashes only.
PathBase(p) ==
    IF p = <<>> THEN <<".">>
    ELSE LET q == StripTrailingSlashes(p)
             slashes == {i \in 1..Len(q) : q[i] = "/"}
             last == IF slashes = {} THEN 0
                     ELSE CHOOSE i \in slashes : \A j \in slashes : j <= i
         IN  IF q = <<>> THEN <<"/">> ELSE SubSeq(q, last + 1, Len(q))

\* A bug of userConfigMapName: only the last extension is cut off.
userConfigMapNameCutsLastDot(f) ==
    LET parts == Split(f, ".")
        stem == IF Len(parts) > 2 THEN parts[1] \o <<".">> \o parts[2] ELSE parts[1]
    IN  UserManifestPrefix \o ReplaceAll(stem, "_", "-")

\* userConfigMapName (lines 188-191)
userConfigMapName(f) ==
    UserManifestPrefix \o ReplaceAll(Split(f, ".")[1], "_", "-")

----------------------------------------------------------------------------
(* renderContext: the accumulated output mapping and template substitution *)

\* The names of the mapping, in insertion order.
Names(m) == [i \in 1..Len(m) |-> m[i].name]

HasManifest(m, name) == \E i \in 1..Len(m) : m[i].name = name

TextOf(m, name) == m[CHOOSE i \in 1..Len(m) : m[i].name = name].text

\* renderContext.addManifest: insert, or overwrite the text of an entry that
\* is there (the last write for a name wins, the entry keeps its place).
addManifest(m, name, text) ==
    IF HasManifest(m, name)
    THEN [i \in 1..Len(m) |->
              IF m[i].name = name THEN [name |-> name, text |-> text] ELSE m[i]]
    ELSE Append(m, [name |-> name, text |-> text])

\* renderContext.substituteParams against the cluster parameters: the
\* expansion of the asset, or a failure for an asset that does not expand.
substituteParams(asset, broken) ==
    IF asset \in broken
    THEN [ok |-> FALSE, text |-> <<>>]
    ELSE [ok |-> TRUE, text |-> <<asset>>]

\* renderContext.substituteParams of the wrapper template against {data, name}.
substituteWrapper(name, data, broken) ==
    IF UserManifestTemplate \in broken
    THEN [ok |-> FALSE, text |-> <<>>]
    ELSE [ok |-> TRUE, text |-> <<UserManifestTemplate, name>> \o data]

\* renderContext.addManifestFiles: each asset in order is expanded and added
\* under its directory-qualified name; the first failure stops the pass.
RECURSIVE addManifestFiles(_, _, _)
addManifestFiles(m, files, broken) ==
    IF files = <<>> THEN [m |-> m, err |-> "none"]
    ELSE LET r == substituteParams(Head(files), broken)
         IN  IF ~r.ok THEN [m |-> m, err |-> "TemplateError"]
             ELSE addManifestFiles(addManifest(m, Head(files), r.text),
                                   Tail(files), broken)

\* renderContext.addPatch: the base entry's text with the patch's expansion
\* appended; PatchTargetMissing when the base name is not in the mapping.
addPatch(m, baseName, patch, broken) ==
    IF ~HasManifest(m, baseName) THEN [m |-> m, err |-> "PatchTargetMissing"]
    ELSE LET r == substituteParams(patch, broken)
         IN  IF ~r.ok THEN [m |-> m, err |-> "TemplateError"]
             ELSE [m |-> addManifest(m, baseName, TextOf(m, baseName) \o r.text),
                   err |-> "none"]

----------------------------------------------------------------------------
(* clusterManifestContext: the feature groups *)

\* addUserManifestFiles (lines 175-177)
addUserManifestFiles(files, names) == files \o names

\* addUserManifest (lines 179-181)
addUserManifest(um, name, content) ==
    [n \in DOMAIN um \cup {name} |-> IF n = name THEN content ELSE um[n]]

\* etcd (lines 72-81)
etcd(m, broken) == addManifestFiles(m, EtcdFiles, broken)

\* kubeAPIServer (lines 89-96): the patch, then the vpnclient config.
kubeAPIServer(m, broken) ==
    LET p == addPatch(m, KubeAPIServerDeployment, KubeAPIServerPatch, broken)
    IN  IF p.err # "none" THEN p
        ELSE addManifestFiles(p.m, KubeAPIServerFiles, broken)

\* clusterBootstrap's loop (lines 107-109): one path per listed name, in the
\* order of the listing.
clusterBootstrapFiles(listing) ==
    [i \in 1..Len(listing) |-> ClusterBootstrapDir \o listing[i]]

\* openVPN's addManifestFiles (lines 113-118)
openVPN(m, broken) == addManifestFiles(m, OpenVPNServerFiles, broken)

\* routerProxy (lines 125-133)
routerProxy(m, broken) == addManifestFiles(m, RouterProxyFiles, broken)

\* hypershiftOperator (lines 135-139)
hypershiftOperator(m, broken) == addManifestFiles(m, HypershiftOperatorFiles, broken)

\* The name a wrapped manifest is added under (lines 159, 171).
WrappedName(name) == UserManifestPrefix \o name

\* name := path.Base(file) (line 150)
FileName(f) == PathBase(f)

\* The first loop of userManifestsBootstrapper (lines 145-160).
RECURSIVE wrapUserManifestFiles(_, _, _)
wrapUserManifestFiles(m, files, broken) ==
    IF files = <<>> THEN [m |-> m, err |-> "none"]
    ELSE LET f == Head(files)
             data == substituteParams(f, broken)
             name == FileName(f)
             manifest == substituteWrapper(userConfigMapName(name), data.text, broken)
         IN  IF ~data.ok THEN [m |-> m, err |-> "UserManifestError"]
             ELSE IF ~manifest.ok THEN [m |-> m, err |-> "WrapError"]
             ELSE wrapUserManifestFiles(
                      addManifest(m, WrappedName(name), manifest.text),
                      Tail(files), broken)

\* The second loop of userManifestsBootstrapper (lines 162-172), over the
\* names of the map in the order the range statement yields them.
RECURSIVE wrapUserManifests(_, _, _, _)
wrapUserManifests(m, order, um, broken) ==
    IF order = <<>> THEN [m |-> m, err |-> "none"]
    ELSE LET name == Head(order)
             manifest == substituteWrapper(userConfigMapName(name), um[name], broken)
         IN  IF ~manifest.ok THEN [m |-> m, err |-> "WrapError"]
             ELSE wrapUserManifests(
                      addManifest(m, WrappedName(name), manifest.text),
                      Tail(order), um, broken)

\* userManifestsBootstrapper (lines 141-173)
userManifestsBootstrapper(m, files, order, um, broken) ==
    LET pod == addManifestFiles(m, BootstrapperPodFiles, broken)
        first == wrapUserManifestFiles(pod.m, files, broken)
    IN  IF pod.err # "none" THEN pod
        ELSE IF first.err # "none" THEN first
        ELSE wrapUserManifests(first.m, order, um, broken)

\* The orders in which a range over a map with these keys can yield them.
RangeOrders(keys) ==
    {o \in [1..Cardinality(keys) -> keys] : \A i, j \in DOMAIN o : i # j => o[i] # o[j]}

----------------------------------------------------------------------------
(* The inputs of a render pass *)

\* File names the listing of the cluster-bootstrap directory is drawn from:
\* a_b.yaml, a-b.yaml, c.yaml
ListingNames ==
    { <<"a", "_", "b", ".", "yaml">>,
      <<"a", "-", "b", ".", "yaml">>,
      <<"c", ".", "yaml">> }

\* Names the directly supplied user manifests are drawn from:
\* x.yaml, x.json, y.yaml
UserNames ==
    { <<"x", ".", "yaml">>, <<"x", ".", "json">>, <<"y", ".", "yaml">> }

\* The content supplied with a user manifest name.
UserContent(name) == << <<"content", "/">> \o name >>

\* A directory listing names each file once.
Listings ==
    UNION { {l \in [1..n -> ListingNames] : \A i, j \in 1..n : i # j => l[i] # l[j]}
            : n \in 0..MaxListing }

UserSets == {u \in SUBSET UserNames : Cardinality(u) <= MaxUser}

\* Assets whose expansion may fail; at most one of them fails in a pass.
BreakableAssets ==
    { KubeAPIServerFiles[1], ClusterBootstrapDir \o <<"c", ".", "yaml">>,
      UserManifestTemplate, RouterProxyFiles[2] }

BrokenSets == {{}} \cup {{a} : a \in BreakableAssets}

Callers == {"RenderClusterManifests", "package"}

\* The statement a driver starts a pass with: RenderClusterManifests resolves
\* the release first (line 15); a caller inside the package starts with the
\* construction of the context.
StartPc(caller) ==
    IF caller = "RenderClusterManifests" THEN "GetReleaseInfo"
    ELSE "newClusterManifestContext"

EmptyMap == [n \in {} |-> <<>>]

Init ==
    /\ env \in [ caller : Callers,
                 etcd : BOOLEAN, vpn : BOOLEAN,
                 externalOauth : BOOLEAN, includeRegistry : BOOLEAN,
                 releaseOK : BOOLEAN, assetDirOK : BOOLEAN,
                 assetDir : Listings, broken : BrokenSets,
                 user : UserSets, writeOK : BOOLEAN ]
    \* inputs a pass never reads are held at one value
    /\ env.caller = "RenderClusterManifests" => env.user = {}
    /\ env.caller = "package" => env.releaseOK
    /\ ~env.assetDirOK => env.assetDir = <<>>
    /\ pc = StartPc(env.caller)
    /\ manifests = <<>>
    /\ userManifestFiles = <<>>
    /\ userManifests = EmptyMap
    /\ calls = <<>>
    /\ failure = "none"
    /\ result = "none"
    /\ output = <<>>
    /\ pass = 1
    /\ prev = [result |-> "none", output |-> <<>>]
    /\ file = <<>>
    /\ cmName = <<>>
    /\ npc = "idle"

----------------------------------------------------------------------------
(* setupManifests: the order of the feature groups (lines 52-70) *)

\* A bug of the order: the operator deployment before the router proxy.
SetupOrderOperatorEarly ==
    <<"etcd", "kubeAPIServer", "clusterBootstrap", "oauthOpenshiftServer",
      "openVPN", "registry", "userManifestsBootstrapper", "hypershiftOperator",
      "routerProxy">>

\* A bug of the order: the bootstrapper before the registry group.
SetupOrderBootstrapperEarly ==
    <<"etcd", "kubeAPIServer", "clusterBootstrap", "oauthOpenshiftServer",
      "openVPN", "userManifestsBootstrapper", "registry", "routerProxy",
      "hypershiftOperator">>

\* A bug of the order: the VPN group before the OAuth group.
SetupOrderVPNEarly ==
    <<"etcd", "kubeAPIServer", "clusterBootstrap", "openVPN",
      "oauthOpenshiftServer", "registry", "userManifestsBootstrapper",
      "routerProxy", "hypershiftOperator">>

\* The statements of setupManifests, in the order of the text.
SetupOrder ==
    <<"etcd", "kubeAPIServer", "clusterBootstrap", "oauthOpenshiftServer",
      "openVPN", "registry", "userManifestsBootstrapper", "routerProxy",
      "hypershiftOperator">>

\* A bug of the conditions: the VPN group is not guarded.
RequestedVPNAlways(group) ==
    CASE group = "etcd" -> env.etcd
      [] group = "oauthOpenshiftServer" -> env.externalOauth
      [] group = "registry" -> env.includeRegistry
      [] OTHER -> TRUE

\* The if statements of setupManifests (lines 53, 58, 61, 64).
Requested(group) ==
    CASE group = "etcd" -> env.etcd
      [] group = "oauthOpenshiftServer" -> env.externalOauth
      [] group = "openVPN" -> env.vpn
      [] group = "registry" -> env.includeRegistry
      [] OTHER -> TRUE

\* The first statement after position i that runs; after the last one
\* setupManifests returns and line 21 calls renderManifests.
GroupAfter(i) ==
    LET later == {j \in (i + 1)..Len(SetupOrder) : Requested(SetupOrder[j])}
    IN  IF later = {} THEN "renderManifests"
        ELSE SetupOrder[CHOOSE j \in later : \A k \in later : j <= k]

NextGroup(group) ==
    GroupAfter(CHOOSE i \in 1..Len(SetupOrder) : SetupOrder[i] = group)

\* A bug of the failure path: the panic is swallowed and the pass goes on.
UnwindRecovered(next) == next

\* Where a panic leaves the pass: neither setupManifests nor
\* RenderClusterManifests recovers, so the panic leaves both.
Unwind(next) == "panicked"

\* The effect of a feature group that ran to r = [m, err] on the driver.
GroupDone(group, r) ==
    LET to == IF r.err = "none" THEN NextGroup(group) ELSE Unwind(NextGroup(group))
    IN  /\ calls' = Append(calls, group)
        /\ manifests' = r.m
        /\ failure' = IF failure = "none" THEN r.err ELSE failure
        /\ pc' = to
        /\ result' = IF to = "panicked" THEN "panic" ELSE result
        /\ UNCHANGED <<env, output, pass, prev, nameVars>>

----------------------------------------------------------------------------
(* The drivers: RenderClusterManifests (lines 14-22) and a caller inside the *)
(* package that builds a context, fills it and runs the same two calls      *)

\* release.GetReleaseInfo and the check of its error (lines 15-18)
GetReleaseInfo ==
    /\ pc = "GetReleaseInfo"
    /\ IF env.releaseOK
       THEN /\ pc' = "newClusterManifestContext"
            /\ UNCHANGED <<failure, result>>
       ELSE /\ pc' = "returned"
            /\ failure' = "ReleaseResolutionError"
            /\ result' = "error"
    /\ UNCHANGED <<env, ctxVars, calls, output, pass, prev, nameVars>>

\* newClusterManifestContext (lines 30-50): an empty mapping, no user
\* manifest files, an empty userManifests map.
newClusterManifestContext ==
    /\ pc = "newClusterManifestContext"
    /\ manifests' = <<>>
    /\ userManifestFiles' = <<>>
    /\ userManifests' = EmptyMap
    /\ pc' = "constructed"
    /\ UNCHANGED <<env, calls, failure, result, output, pass, prev, nameVars>>

\* The package caller adds the rendered API server deployment, the base of
\* kubeAPIServer's patch, before it sets the manifests up.
AddManifest ==
    /\ pc = "constructed"
    /\ env.caller = "package"
    /\ ~HasManifest(manifests, KubeAPIServerDeployment)
    /\ manifests' = addManifest(manifests, KubeAPIServerDeployment,
                                <<KubeAPIServerDeployment>>)
    /\ UNCHANGED <<env, pc, userManifestFiles, userManifests, calls, failure,
                   result, output, pass, prev, nameVars>>

\* The package caller supplies one of its user manifests (addUserManifest).
AddUserManifest ==
    /\ pc = "constructed"
    /\ env.caller = "package"
    /\ \E n \in env.user \ DOMAIN userManifests :
           userManifests' = addUserManifest(userManifests, n, UserContent(n))
    /\ UNCHANGED <<env, pc, manifests, userManifestFiles, calls, failure,
                   result, output, pass, prev, nameVars>>

\* The call of setupManifests (line 20); RenderClusterManifests makes it
\* right after the construction, the package caller once it has added the
\* patch base and supplied its user manifests.
SetupManifests ==
    /\ pc = "constructed"
    /\ env.caller = "package" =>
           /\ HasManifest(manifests, KubeAPIServerDeployment)
           /\ DOMAIN userManifests = env.user
    /\ pc' = GroupAfter(0)
    /\ UNCHANGED <<env, ctxVars, calls, failure, result, output, pass, prev,
                   nameVars>>

Etcd ==
    /\ pc = "etcd"
    /\ GroupDone("etcd", etcd(manifests, env.broken))
    /\ UNCHANGED <<userManifestFiles, userManifests>>

KubeAPIServer ==
    /\ pc = "kubeAPIServer"
    /\ GroupDone("kubeAPIServer", kubeAPIServer(manifests, env.broken))
    /\ UNCHANGED <<userManifestFiles, userManifests>>

\* clusterBootstrap (lines 102-110): a failed listing panics.
ClusterBootstrap ==
    /\ pc = "clusterBootstrap"
    /\ IF env.assetDirOK
       THEN /\ userManifestFiles' =
                   addUserManifestFiles(userManifestFiles,
                                        clusterBootstrapFiles(env.assetDir))
            /\ GroupDone("clusterBootstrap", [m |-> manifests, err |-> "none"])
       ELSE /\ UNCHANGED userManifestFiles
            /\ GroupDone("clusterBootstrap", [m |-> manifests, err |-> "AssetDirError"])
    /\ UNCHANGED userManifests

\* oauthOpenshiftServer (lines 83-87)
OauthOpenshiftServer ==
    /\ pc = "oauthOpenshiftServer"
    /\ userManifestFiles' = addUserManifestFiles(userManifestFiles, OauthFiles)
    /\ GroupDone("oauthOpenshiftServer", [m |-> manifests, err |-> "none"])
    /\ UNCHANGED userManifests

\* openVPN (lines 112-123): the client files are registered once the server
\* files are added.
OpenVPN ==
    /\ pc = "openVPN"
    /\ LET r == openVPN(manifests, env.broken)
       IN  /\ userManifestFiles' =
                  IF r.err = "none"
                  THEN addUserManifestFiles(userManifestFiles, OpenVPNClientFiles)
                  ELSE userManifestFiles
           /\ GroupDone("openVPN", r)
    /\ UNCHANGED userManifests

\* registry (lines 98-100)
Registry ==
    /\ pc = "registry"
    /\ userManifestFiles' = addUserManifestFiles(userManifestFiles, RegistryFiles)
    /\ GroupDone("registry", [m |-> manifests, err |-> "none"])
    /\ UNCHANGED userManifests

\* userManifestsBootstrapper (lines 141-173); the range over the map yields
\* its names in an order the run-time picks.
UserManifestsBootstrapper ==
    /\ pc = "userManifestsBootstrapper"
    /\ \E order \in RangeOrders(DOMAIN userManifests) :
           GroupDone("userManifestsBootstrapper",
                     userManifestsBootstrapper(manifests, userManifestFiles, order,
                                               userManifests, env.broken))
    /\ UNCHANGED <<userManifestFiles, userManifests>>

RouterProxy ==
    /\ pc = "routerProxy"
    /\ GroupDone("routerProxy", routerProxy(manifests, env.broken))
    /\ UNCHANGED <<userManifestFiles, userManifests>>

HypershiftOperator ==
    /\ pc = "hypershiftOperator"
    /\ GroupDone("hypershiftOperator", hypershiftOperator(manifests, env.broken))
    /\ UNCHANGED <<userManifestFiles, userManifests>>

\* renderManifests (line 21): the accumulated set in insertion order, or an
\* error and nothing.
RenderManifests ==
    /\ pc = "renderManifests"
    /\ pc' = "returned"
    /\ IF env.writeOK
       THEN /\ output' = manifests
            /\ result' = "ok"
            /\ UNCHANGED failure
       ELSE /\ output' = <<>>
            /\ result' = "error"
            /\ failure' = IF failure = "none" THEN "RenderError" ELSE failure
    /\ UNCHANGED <<env, ctxVars, calls, pass, prev, nameVars>>

\* A second pass from the same inputs, once the first has ended.
NextPass ==
    /\ pc \in {"returned", "panicked"}
    /\ pass = 1
    /\ pass' = 2
    /\ prev' = [result |-> result, output |-> output]
    /\ pc' = StartPc(env.caller)
    /\ manifests' = <<>>
    /\ userManifestFiles' = <<>>
    /\ userManifests' = EmptyMap
    /\ calls' = <<>>
    /\ failure' = "none"
    /\ result' = "none"
    /\ output' = <<>>
    /\ UNCHANGED <<env, nameVars>>

Next ==
    \/ GetReleaseInfo
    \/ newClusterManifestContext
    \/ AddManifest
    \/ AddUserManifest
    \/ SetupManifests
    \/ Etcd
    \/ KubeAPIServer
    \/ ClusterBootstrap
    \/ OauthOpenshiftServer
    \/ OpenVPN
    \/ Registry
    \/ UserManifestsBootstrapper
    \/ RouterProxy
    \/ HypershiftOperator
    \/ RenderManifests
    \/ NextPass

Spec == Init /\ [][Next]_vars

----------------------------------------------------------------------------
(* userConfigMapName on its own: a caller applies it to a file identifier *)

NameSymbols == {"a", "_", ".", "-"}

\* Non-empty file identifiers without path separator.
NameInputs ==
    UNION {[1..n -> NameSymbols] : n \in 1..MaxLen}
    \cup { <<"etcd", "_", "secret", ".", "yaml">>, <<"a", ".", "b", ".", "c">> }

InitName ==
    /\ env = [ caller |-> "package", etcd |-> FALSE, vpn |-> FALSE,
               externalOauth |-> FALSE, includeRegistry |-> FALSE,
               releaseOK |-> TRUE, assetDirOK |-> TRUE, assetDir |-> <<>>,
               broken |-> {}, user |-> {}, writeOK |-> TRUE ]
    /\ pc = "idle"
    /\ manifests = <<>>
    /\ userManifestFiles = <<>>
    /\ userManifests = EmptyMap
    /\ calls = <<>>
    /\ failure = "none"
    /\ result = "none"
    /\ output = <<>>
    /\ pass = 1
    /\ prev = [result |-> "none", output |-> <<>>]
    /\ file \in NameInputs
    /\ cmName = <<>>
    /\ npc = "call"

CallUserConfigMapName ==
    /\ npc = "call"
    /\ cmName' = userConfigMapName(file)
    /\ npc' = "done"
    /\ UNCHANGED <<env, pc, ctxVars, calls, failure, result, output, pass, prev, file>>

NextName == CallUserConfigMapName

SpecName == InitName /\ [][NextName]_vars

----------------------------------------------------------------------------
(* Properties *)

IsPrefix(s, t) == Len(s) <= Len(t) /\ SubSeq(t, 1, Len(s)) = s

\* setupManifests has returned: line 21 is reached or behind.
SetupSucceeded ==
    /\ pc \in {"renderManifests", "returned"}
    /\ failure \in {"none", "RenderError"}

BootstrapperRan == "userManifestsBootstrapper" \in SeqToSet(calls)

\* The failures of the steps of setupManifests.
SetupFailures ==
    {"PatchTargetMissing", "TemplateError", "AssetDirError", "UserManifestError",
     "WrapError"}

\* C1: whenever a step of the render pass fails, the pass stops there and the
\* caller is handed an error value; the failure is not an unrecovered panic.
C1_FailureIsReturnedError ==
    failure \in SetupFailures => (pc = "returned" /\ result = "error")

\* The feature groups the flags ask for, in the order the specification gives.
ExpectedCalls ==
    (IF env.etcd THEN <<"etcd">> ELSE <<>>)
    \o <<"kubeAPIServer", "clusterBootstrap">>
    \o (IF env.externalOauth THEN <<"oauthOpenshiftServer">> ELSE <<>>)
    \o (IF env.vpn THEN <<"openVPN">> ELSE <<>>)
    \o (IF env.includeRegistry THEN <<"registry">> ELSE <<>>)
    \o <<"userManifestsBootstrapper", "routerProxy", "hypershiftOperator">>

\* C2: a pass that fails at the release resolution or at a step of
\* setupManifests puts no manifest out, and renderManifests is reached only
\* when the release was resolved and every step of setupManifests has run
\* without failure.
C2_NoOutputOnFailure ==
    /\ failure \in SetupFailures \cup {"ReleaseResolutionError"} =>
           /\ output = <<>>
           /\ pc # "renderManifests"
           /\ result # "ok"
    /\ (pc = "renderManifests" \/ result = "ok" \/ failure = "RenderError") =>
           /\ env.releaseOK
           /\ failure \in {"none", "RenderError"}
           /\ calls = ExpectedCalls

\* RenderClusterManifests has panicked with manifests accumulated, and has
\* put nothing out.
C2_Witness ==
    /\ env.caller = "RenderClusterManifests"
    /\ pc = "panicked"
    /\ failure \in SetupFailures
    /\ Len(manifests) > 0
    /\ output = <<>>

\* C3: the feature groups run in the fixed order etcd, API server,
\* cluster-bootstrap, OAuth, VPN, registry, bootstrapper, router proxy,
\* operator, with only the groups whose flag is false left out: what has run
\* is always a prefix of that sequence, and all of it once setupManifests
\* has returned, so no group runs twice.
C3_FixedOrder ==
    /\ IsPrefix(calls, ExpectedCalls)
    /\ SetupSucceeded => calls = ExpectedCalls

\* setupManifests has returned with some flags set and some not.
C3_Witness ==
    /\ SetupSucceeded
    /\ env.etcd /\ ~env.externalOauth /\ env.vpn /\ env.includeRegistry
    /\ Len(calls) = 8

\* The names of the wrapped openvpn client manifests:
\* user-manifest-openvpn-client-deployment.yaml and -configmap.yaml
WrappedOpenVPNClientNames ==
    { <<"user", "-", "manifest", "-", "openvpn", "-", "client", "-", "deployment", ".", "yaml">>,
      <<"user", "-", "manifest", "-", "openvpn", "-", "client", "-", "configmap", ".", "yaml">> }

\* The six names of the VPN group in the output.
VPNNames == SeqToSet(OpenVPNServerFiles) \cup WrappedOpenVPNClientNames

IsEtcdManifest(e) ==
    \/ Len(e.name) >= 2 /\ e.name[1] = "etcd" /\ e.name[2] = "/"
    \/ \E k \in 1..Len(e.text) : e.text[k] \in SeqToSet(EtcdFiles)

\* C4: after a successful setupManifests, without the etcd flag no manifest
\* of an etcd/ asset is in the output; with the vpn flag the four server
\* manifests and the two wrapped client manifests are all there, and without
\* it none of the six is.
C4_FlagGating ==
    SetupSucceeded =>
        /\ ~env.etcd => \A i \in 1..Len(manifests) : ~IsEtcdManifest(manifests[i])
        /\ env.vpn =>
               /\ VPNNames \subseteq SeqToSet(Names(manifests))
               /\ \A f \in SeqToSet(OpenVPNServerFiles) : TextOf(manifests, f) = <<f>>
               /\ \A f \in SeqToSet(OpenVPNClientFiles) :
                      \E i \in 1..Len(manifests) :
                          /\ manifests[i].name \in WrappedOpenVPNClientNames
                          /\ manifests[i].text[1] = UserManifestTemplate
                          /\ manifests[i].text[3] = f
        /\ ~env.vpn => VPNNames \cap SeqToSet(Names(manifests)) = {}

\* setupManifests has returned with the vpn flag set and the etcd flag not.
C4_Witness ==
    /\ SetupSucceeded
    /\ env.vpn /\ ~env.etcd
    /\ VPNNames \subseteq SeqToSet(Names(manifests))

\* C5: two passes from the same inputs put out the same manifests in the
\* same order, also with two or more entries in userManifests.
C5_SameInputsSameOutput ==
    (pass = 2 /\ result = "ok" /\ prev.result = "ok") => output = prev.output

\* The ConfigMap names of the entries the bootstrapper processes, one per
\* entry: the registered asset paths by position, the supplied names by name.
ConfigMapNameOfFile(k) == userConfigMapName(PathBase(userManifestFiles[k]))

\* C6: any two distinct user manifest entries the bootstrapper processes get
\* distinct ConfigMap names.
C6_ConfigMapNamesDistinct ==
    BootstrapperRan =>
        /\ \A i, j \in 1..Len(userManifestFiles) :
               i # j => ConfigMapNameOfFile(i) # ConfigMapNameOfFile(j)
        /\ \A n1, n2 \in DOMAIN userManifests :
               n1 # n2 => userConfigMapName(n1) # userConfigMapName(n2)
        /\ \A i \in 1..Len(userManifestFiles) : \A n \in DOMAIN userManifests :
               ConfigMapNameOfFile(i) # userConfigMapName(n)

\* A manifest wrapped around the expansion of a cluster-bootstrap asset.
IsClusterBootstrapManifest(e) ==
    /\ Len(e.text) = 3
    /\ e.text[1] = UserManifestTemplate
    /\ IsPrefix(ClusterBootstrapDir, e.text[3])

\* C7: after a successful setupManifests every manifest of a
\* cluster-bootstrap asset stands before every router-proxy manifest, and
\* the operator deployment is the last entry.
C7_Ordering ==
    SetupSucceeded =>
        /\ \A i, j \in 1..Len(manifests) :
               (/\ IsClusterBootstrapManifest(manifests[i])
                /\ manifests[j].name \in SeqToSet(RouterProxyFiles)) => i < j
        /\ Len(manifests) > 0
        /\ manifests[Len(manifests)].name = HypershiftOperatorFiles[1]

\* setupManifests has returned with two cluster-bootstrap manifests and the
\* five router-proxy manifests in the output.
C7_Witness ==
    /\ SetupSucceeded
    /\ Cardinality({i \in 1..Len(manifests) :
                        IsClusterBootstrapManifest(manifests[i])}) = 2
    /\ SeqToSet(RouterProxyFiles) \subseteq SeqToSet(Names(manifests))

\* The index of the first "." of s, Len(s) + 1 when there is none.
FirstDot(s) ==
    IF \E i \in 1..Len(s) : s[i] = "."
    THEN CHOOSE i \in 1..Len(s) : s[i] = "." /\ \A j \in 1..(i - 1) : s[j] # "."
    ELSE Len(s) + 1

\* C8: userConfigMapName returns "user-manifest-" and then the part of the
\* identifier before its first ".", each "_" of it turned into "-";
\* etcd_secret.yaml gives user-manifest-etcd-secret and a.b.c gives
\* user-manifest-a.
C8_NamingTransform ==
    npc = "done" =>
        /\ Len(cmName) = 4 + FirstDot(file) - 1
        /\ SubSeq(cmName, 1, 4) = <<"user", "-", "manifest", "-">>
        /\ \A i \in 1..(FirstDot(file) - 1) :
               cmName[4 + i] = IF file[i] = "_" THEN "-" ELSE file[i]
        /\ file = <<"etcd", "_", "secret", ".", "yaml">> =>
               cmName = <<"user", "-", "manifest", "-", "etcd", "-", "secret">>
        /\ file = <<"a", ".", "b", ".", "c">> =>
               cmName = <<"user", "-", "manifest", "-", "a">>

\* userConfigMapName has returned for an identifier with an underscore
\* before its first of two dots.
C8_Witness ==
    /\ npc = "done"
    /\ file = <<"a", "_", ".", ".">>
    /\ cmName = <<"user", "-", "manifest", "-", "a", "-">>

\* The asset paths the feature groups register, from the flags and the
\* listing.
ExpectedUserManifestFiles ==
    [i \in 1..Len(env.assetDir) |-> <<"cluster", "-", "bootstrap", "/">> \o env.assetDir[i]]
    \o (IF env.externalOauth THEN OauthFiles ELSE <<>>)
    \o (IF env.vpn THEN OpenVPNClientFiles ELSE <<>>)
    \o (IF env.includeRegistry THEN RegistryFiles ELSE <<>>)

\* The part of a path after its last "/".
BaseFileName(p) ==
    LET slashes == {i \in 1..Len(p) : p[i] = "/"}
    IN  IF slashes = {} THEN p
        ELSE SubSeq(p, 1 + CHOOSE i \in slashes : \A j \in slashes : j <= i, Len(p))

C9_AllWrapped ==
    SetupSucceeded =>
        /\ userManifestFiles = ExpectedUserManifestFiles
        /\ \A k \in 1..Len(userManifestFiles) :
               \E i \in 1..Len(manifests) :
                   /\ manifests[i].name =
                          <<"user", "-", "manifest", "-">> \o BaseFileName(userManifestFiles[k])
                   /\ manifests[i].text[1] = UserManifestTemplate
                   /\ Len(manifests[i].text) = 3

C9_NoneRegisteredLater ==
    (BootstrapperRan /\ pass' = pass) =>
        (userManifestFiles' = userManifestFiles /\ userManifests' = userManifests)

\* C9: every user manifest a feature group registers is registered before
\* the bootstrapper runs and none after it; after a successful
\* setupManifests the output holds, for each registered asset path, a
\* wrapped manifest named "user-manifest-" and the base file name of the path.
C9_RegisteredBeforeBootstrapper ==
    []C9_AllWrapped /\ [][C9_NoneRegisteredLater]_vars

\* setupManifests has returned with a listed file, the OAuth secret, the VPN
\* client files and the registry config all registered and wrapped.
C9_Witness ==
    /\ SetupSucceeded
    /\ Len(env.assetDir) > 0
    /\ env.externalOauth /\ env.vpn /\ env.includeRegistry
    /\ Len(userManifestFiles) = Len(env.assetDir) + 4
    /\ \A k \in 1..Len(userManifestFiles) :
           HasManifest(manifests, UserManifestPrefix \o PathBase(userManifestFiles[k]))

\* C10: when kubeAPIServer applies its patch, the base name
\* kube-apiserver-deployment.yaml is in the mapping, so the patch never
\* fails with PatchTargetMissing.
C10_PatchTargetPresent ==
    /\ pc = "kubeAPIServer" => HasManifest(manifests, KubeAPIServerDeployment)
    /\ failure # "PatchTargetMissing"

====
